---- MODULE Spec2Model ----
(***************************************************************************)
(* Pairwise Euclidean distance matrix builders of the notebook             *)
(* 2dv516-python-2-part-2-threads.ipynb: the sequential builder, the       *)
(* shuffled builder, the four threaded builders and the process-based      *)
(* builder, each as a state machine of the parent's loop steps and of the  *)
(* workers' writes.                                                        *)
(*                                                                         *)
(* Python indices are kept 0-based: row i of the dataset is X[i + 1] of    *)
(* the TLA+ sequence, and cell (i, j) of the matrix is D[i + 1][j + 1].    *)
(* Numbers are integers; sqrt is the integer square root, which is exact   *)
(* on the one-coordinate datasets; on the two-coordinate datasets of       *)
(* SpecPairs it is exact where the sum of squares is a perfect square.     *)
(***************************************************************************)
EXTENDS Integers, Sequences, FiniteSets, TLC

(* ---------------------------------------------------------------- bounds *)
\* Largest number of rows of a dataset.
MaxN == 3
\* Largest number of rows given to the one-thread-per-cell builder, which
\* starts n * n workers.
MaxCellN == 2
\* Largest sum of the coordinates of a dataset.
MaxSum == 2
\* Largest number of rows given to the partitioned builder
\* eucl_dist_matrix_thr_4; its partition counts go one beyond it.
MaxChunkN == 5
\* Largest number of rows of a dataset of two-coordinate rows.
MaxPairN == 2
\* Largest sum of the coordinates of a dataset of two-coordinate rows.
MaxPairSum == 7
\* Largest sum of the coordinates of a dataset of the fairly scheduled calls.
MaxFairSum == 0
\* Largest number of rows given to the process-based builder.
MaxProcN == 8
\* Largest sum of the coordinates of a dataset given to that builder.
MaxProcSum == 1
\* The number of chunks of eucl_dist_matrix_p: chunk_size = n // 8.
ProcChunks == 8
\* The default partition count: def eucl_dist_matrix_thr_4(X, n_jobs=8).
DefaultJobs == 8

VARIABLES
    fn,          \* the builder that was called
    X,           \* the caller's dataset, a sequence of rows
    n_jobs,      \* the partition count (0: the builder has no such parameter)
    pc,          \* the parent's position: call, fill, start, join, return, raised
    D,           \* the output matrix
    i,           \* the parent's outer loop variable
    j,           \* the parent's inner loop variable
    chunk_size,  \* eucl_dist_matrix_thr_4's chunk size
    rowsLeft,    \* the shuffled builder's row order, the part not yet visited
    colsLeft,    \* the shuffled builder's column order of the current row
    threads,     \* the started workers, in start order
    joined,      \* how many workers of `threads` the parent has joined
    hits,        \* hits[i + 1][j + 1]: how often cell (i, j) was assigned
    error        \* the exception the call raised, or "none"

vars == <<fn, X, n_jobs, pc, D, i, j, chunk_size, rowsLeft, colsLeft,
          threads, joined, hits, error>>

(* ------------------------------------------------------- pure functions *)
Min(a, b) == IF a <= b THEN a ELSE b

range(k) == 0 .. (k - 1)

\* math.sqrt on the integers: the largest r with r * r <= s.
sqrt(s) == CHOOSE r \in 0 .. s : r * r <= s /\ (r + 1) * (r + 1) > s

RECURSIVE SumSq(_, _, _)
\* sum([(x_ - y_)**2 for x_, y_ in zip(x, y)]) over the first k pairs; zip
\* stops at the shorter vector.
SumSq(x, y, k) ==
    IF k = 0 THEN 0
    ELSE SumSq(x, y, k - 1) + (x[k] - y[k]) * (x[k] - y[k])

\* A distance that forgets the square root.
eucl_dist_no_sqrt(x, y) == SumSq(x, y, Min(Len(x), Len(y)))

\* A distance that forgets to square the differences.
eucl_dist_unsquared(x, y) ==
    LET d == x[1] - y[1] IN sqrt(IF d < 0 THEN 0 ELSE d)

\* A distance that adds the coordinates instead of subtracting them.
eucl_dist_added(x, y) ==
    sqrt((x[1] + y[1]) * (x[1] + y[1]))

eucl_dist(x, y) == sqrt(SumSq(x, y, Min(Len(x), Len(y))))

empty_square_matrix(n) == [a \in 1 .. n |-> [b \in 1 .. n |-> 0]]

\* M with cell (a, b) set to v (0-based a, b).
SetCell(M, a, b, v) == [M EXCEPT ![a + 1][b + 1] = v]

\* M with cell (a, b) counted once more.
Bump(M, a, b) == [M EXCEPT ![a + 1][b + 1] = @ + 1]

\* The dataset if the matrix shared its rows with the dataset: the item
\* assignment D[a][b] = v would then land in row a of the dataset too.
DatasetAliased(Y, a, b, v) ==
    IF b + 1 \in DOMAIN Y[a + 1] THEN [Y EXCEPT ![a + 1][b + 1] = v] ELSE Y

\* The dataset after the item assignment D[a][b] = v: D is a matrix that
\* empty_square_matrix (np.zeros) has freshly allocated, it shares nothing
\* with the dataset, and the assignment leaves the dataset as it was.
DatasetAfter(Y, a, b, v) == Y

RECURSIVE SeqFill(_, _, _)
\* The matrix after the first k iterations of the nested loops of
\* eucl_dist_matrix, iteration k being cell (k \div n, k % n).
SeqFill(M, Y, k) ==
    IF k = 0 THEN M
    ELSE LET n == Len(Y)
             a == (k - 1) \div n
             b == (k - 1) % n
         IN SetCell(SeqFill(M, Y, k - 1), a, b, eucl_dist(Y[a + 1], Y[b + 1]))

\* The value eucl_dist_matrix(Y) returns.
eucl_dist_matrix(Y) ==
    SeqFill(empty_square_matrix(Len(Y)), Y, Len(Y) * Len(Y))

\* scipy's cdist(XA, XB), Euclidean metric: one row per row of XA.
cdist(XA, XB) ==
    [a \in 1 .. Len(XA) |-> [b \in 1 .. Len(XB) |-> eucl_dist(XA[a], XB[b])]]

\* The sequences of k distinct elements of range(n).
SampleSet(n, k) ==
    {s \in [1 .. k -> range(n)] : \A a, b \in 1 .. k : a # b => s[a] # s[b]}

\* A sample that leaves one index out.
sample_short(n, k) == SampleSet(n, k - 1)

\* random.sample(range(n), k=k): every order is a possible outcome.
sample(n, k) == SampleSet(n, k)

(* ------------------------------------------------------------- workers *)
\* A thread that is created and appended but never started.
ThreadNotStarted(target, a, b, c) ==
    [target |-> target, i |-> a, j |-> b, chunk_size |-> c,
     st |-> "created", jj |-> 0]

\* Thread(target=target, args=(D, X, ...)); t.start()
Thread(target, a, b, c) ==
    [target |-> target, i |-> a, j |-> b, chunk_size |-> c,
     st |-> "running", jj |-> 0]

\* The row indices the slice i:i+chunk_size of a length-n array selects.
SliceOverlapping(a, c, n) == a .. (Min(a + c + 1, n) - 1)

SliceShort(a, c, n) == a .. (Min(a + c - 1, n) - 1)

Slice(a, c, n) == a .. (Min(a + c, n) - 1)

\* range(len(X)) of task_2 cut one short.
task_2_range_short(Y) == range(Len(Y) - 1)

task_2_range(Y) == range(Len(Y))

\* The cells worker t writes over its whole run.
Cells(t) ==
    LET n == Len(X) IN
    CASE t.target = "task"   -> {<<t.i, t.j>>}
      [] t.target = "task_2" -> {<<t.i, b>> : b \in task_2_range(X)}
      [] t.target = "task_3" -> {<<t.i, b>> : b \in range(n)}
      [] t.target = "task_4" ->
             {<<a, b>> : a \in Slice(t.i, t.chunk_size, n), b \in range(n)}

\* The cells worker t has yet to write.
Pending(t) ==
    IF t.st = "done" THEN {}
    ELSE IF t.target = "task_2" THEN {c \in Cells(t) : c[2] >= t.jj}
    ELSE Cells(t)

RECURSIVE Total(_, _)
\* The sum of the coordinates of the first k rows of Y.
Total(Y, k) == IF k = 0 THEN 0 ELSE Total(Y, k - 1) + Y[k][1]

\* The non-empty datasets of at most m rows, each row one natural
\* coordinate, the coordinates summing to at most MaxSum.
Datasets(m) ==
    {Y \in UNION {[1 .. n -> {<<v>> : v \in 0 .. MaxSum}] : n \in 1 .. m} :
        Total(Y, Len(Y)) <= MaxSum}

\* The largest dataset a builder is called on.
MaxRows(f) ==
    CASE f = "eucl_dist_matrix_thr"   -> MaxCellN
      [] f = "eucl_dist_matrix_thr_4" -> MaxChunkN
      [] OTHER                        -> MaxN

Builders ==
    {"eucl_dist_matrix", "eucl_dist_matrix_shuffled", "eucl_dist_matrix_thr",
     "eucl_dist_matrix_thr_2", "eucl_dist_matrix_thr_3",
     "eucl_dist_matrix_thr_4"}

Threaded ==
    {"eucl_dist_matrix_thr", "eucl_dist_matrix_thr_2",
     "eucl_dist_matrix_thr_3", "eucl_dist_matrix_thr_4"}

(* ----------------------------------------------------------------- Init *)
Init ==
    /\ fn \in Builders
    /\ X \in Datasets(MaxRows(fn))
    /\ n_jobs \in IF fn = "eucl_dist_matrix_thr_4"
                  THEN (1 .. (MaxChunkN + 1)) \cup {DefaultJobs}
                  ELSE {0}
    /\ pc = "call"
    /\ D = <<>>
    /\ hits = <<>>
    /\ i = 0
    /\ j = 0
    /\ chunk_size = 0
    /\ rowsLeft = <<>>
    /\ colsLeft = <<>>
    /\ threads = <<>>
    /\ joined = 0
    /\ error = "none"

(* ------------------------------------------------- sequential builder *)
\* n = len(X); D = empty_square_matrix(n)
eucl_dist_matrix_enter ==
    /\ pc = "call"
    /\ fn = "eucl_dist_matrix"
    /\ D' = empty_square_matrix(Len(X))
    /\ hits' = empty_square_matrix(Len(X))
    /\ i' = 0
    /\ j' = 0
    /\ pc' = "fill"
    /\ UNCHANGED <<fn, X, n_jobs, chunk_size, rowsLeft, colsLeft, threads,
                   joined, error>>

\* An inner loop over range(i, n): each unordered pair is visited once only.
eucl_dist_matrix_step_upper ==
    /\ pc = "fill"
    /\ fn = "eucl_dist_matrix"
    /\ i < Len(X)
    /\ D' = SetCell(D, i, j, eucl_dist(X[i + 1], X[j + 1]))
    /\ hits' = Bump(hits, i, j)
    /\ IF j + 1 < Len(X)
       THEN /\ j' = j + 1
            /\ i' = i
       ELSE /\ j' = Min(i + 1, Len(X) - 1)
            /\ i' = i + 1
    /\ UNCHANGED <<fn, X, n_jobs, pc, chunk_size, rowsLeft, colsLeft,
                   threads, joined, error>>

\* One iteration of the inner loop: D[i][j] = eucl_dist(X[i], X[j]).
eucl_dist_matrix_step ==
    /\ pc = "fill"
    /\ fn = "eucl_dist_matrix"
    /\ i < Len(X)
    /\ D' = SetCell(D, i, j, eucl_dist(X[i + 1], X[j + 1]))
    /\ hits' = Bump(hits, i, j)
    /\ X' = DatasetAfter(X, i, j, eucl_dist(X[i + 1], X[j + 1]))
    /\ IF j + 1 < Len(X)
       THEN /\ j' = j + 1
            /\ i' = i
       ELSE /\ j' = 0
            /\ i' = i + 1
    /\ UNCHANGED <<fn, n_jobs, pc, chunk_size, rowsLeft, colsLeft,
                   threads, joined, error>>

\* return D
eucl_dist_matrix_return ==
    /\ pc = "fill"
    /\ fn = "eucl_dist_matrix"
    /\ i = Len(X)
    /\ pc' = "return"
    /\ UNCHANGED <<fn, X, n_jobs, D, i, j, chunk_size, rowsLeft, colsLeft,
                   threads, joined, hits, error>>

(* --------------------------------------------------- shuffled builder *)
\* n = len(X); D = empty_square_matrix(n); the outer random.sample.
eucl_dist_matrix_shuffled_enter ==
    /\ pc = "call"
    /\ fn = "eucl_dist_matrix_shuffled"
    /\ D' = empty_square_matrix(Len(X))
    /\ hits' = empty_square_matrix(Len(X))
    /\ rowsLeft' \in sample(Len(X), Len(X))
    /\ colsLeft' = <<>>
    /\ pc' = "fill"
    /\ UNCHANGED <<fn, X, n_jobs, i, j, chunk_size, threads, joined, error>>

\* The outer loop takes its next row and draws that row's column order.
eucl_dist_matrix_shuffled_row ==
    /\ pc = "fill"
    /\ fn = "eucl_dist_matrix_shuffled"
    /\ colsLeft = <<>>
    /\ rowsLeft # <<>>
    /\ i' = Head(rowsLeft)
    /\ rowsLeft' = Tail(rowsLeft)
    /\ colsLeft' \in sample(Len(X), Len(X))
    /\ UNCHANGED <<fn, X, n_jobs, pc, D, j, chunk_size, threads, joined,
                   hits, error>>

\* One iteration of the inner loop: D[i][j] = eucl_dist(X[i], X[j]).
eucl_dist_matrix_shuffled_step ==
    /\ pc = "fill"
    /\ fn = "eucl_dist_matrix_shuffled"
    /\ colsLeft # <<>>
    /\ j' = Head(colsLeft)
    /\ colsLeft' = Tail(colsLeft)
    /\ D' = SetCell(D, i, j', eucl_dist(X[i + 1], X[j' + 1]))
    /\ hits' = Bump(hits, i, j')
    /\ X' = DatasetAfter(X, i, j', eucl_dist(X[i + 1], X[j' + 1]))
    /\ UNCHANGED <<fn, n_jobs, pc, i, chunk_size, rowsLeft, threads,
                   joined, error>>

\* return D
eucl_dist_matrix_shuffled_return ==
    /\ pc = "fill"
    /\ fn = "eucl_dist_matrix_shuffled"
    /\ colsLeft = <<>>
    /\ rowsLeft = <<>>
    /\ pc' = "return"
    /\ UNCHANGED <<fn, X, n_jobs, D, i, j, chunk_size, rowsLeft, colsLeft,
                   threads, joined, hits, error>>

(* -------------------------------------------------- threaded builders *)
\* t.join() returns once the thread has finished.
join_no_wait(t) == TRUE

is_finished(t) == t.st = "done"

\* The prologue of eucl_dist_matrix_thr, _thr_2 and _thr_3:
\* n = len(X); D = empty_square_matrix(n) (np.zeros((n, n))); threads = [].
thr_enter ==
    /\ pc = "call"
    /\ fn \in {"eucl_dist_matrix_thr", "eucl_dist_matrix_thr_2",
               "eucl_dist_matrix_thr_3"}
    /\ D' = empty_square_matrix(Len(X))
    /\ hits' = empty_square_matrix(Len(X))
    /\ threads' = <<>>
    /\ joined' = 0
    /\ i' = 0
    /\ j' = 0
    /\ pc' = "start"
    /\ UNCHANGED <<fn, X, n_jobs, chunk_size, rowsLeft, colsLeft, error>>

\* eucl_dist_matrix_thr: one iteration of the nested loops starts the worker
\* of cell (i, j).
eucl_dist_matrix_thr_start ==
    /\ pc = "start"
    /\ fn = "eucl_dist_matrix_thr"
    /\ threads' = Append(threads, Thread("task", i, j, 0))
    /\ IF j + 1 < Len(X)
       THEN /\ j' = j + 1
            /\ i' = i
            /\ pc' = pc
       ELSE /\ j' = 0
            /\ i' = i + 1
            /\ pc' = IF i + 1 < Len(X) THEN "start" ELSE "join"
    /\ UNCHANGED <<fn, X, n_jobs, D, chunk_size, rowsLeft, colsLeft, joined,
                   hits, error>>

\* eucl_dist_matrix_thr_2 and _thr_3: one iteration starts the worker of row i.
row_thr_start ==
    /\ pc = "start"
    /\ fn \in {"eucl_dist_matrix_thr_2", "eucl_dist_matrix_thr_3"}
    /\ threads' = Append(threads,
                         Thread(IF fn = "eucl_dist_matrix_thr_2"
                                THEN "task_2" ELSE "task_3", i, 0, 0))
    /\ i' = i + 1
    /\ pc' = IF i + 1 < Len(X) THEN "start" ELSE "join"
    /\ UNCHANGED <<fn, X, n_jobs, D, j, chunk_size, rowsLeft, colsLeft,
                   joined, hits, error>>

\* eucl_dist_matrix_thr_4 up to the loop header: chunk_size = n // n_jobs,
\* and range(0, n, chunk_size), which raises ValueError on a zero step.
eucl_dist_matrix_thr_4_enter ==
    /\ pc = "call"
    /\ fn = "eucl_dist_matrix_thr_4"
    /\ D' = empty_square_matrix(Len(X))
    /\ hits' = empty_square_matrix(Len(X))
    /\ chunk_size' = Len(X) \div n_jobs
    /\ threads' = <<>>
    /\ joined' = 0
    /\ i' = 0
    /\ IF chunk_size' = 0
       THEN /\ pc' = "raised"
            /\ error' = "ValueError"
       ELSE /\ pc' = "start"
            /\ error' = error
    /\ UNCHANGED <<fn, X, n_jobs, j, rowsLeft, colsLeft>>

\* eucl_dist_matrix_thr_4: one iteration of for i in range(0, n, chunk_size)
\* starts the worker of the chunk that begins at row i.
eucl_dist_matrix_thr_4_start ==
    /\ pc = "start"
    /\ fn = "eucl_dist_matrix_thr_4"
    /\ threads' = Append(threads, Thread("task_4", i, 0, chunk_size))
    /\ i' = i + chunk_size
    /\ pc' = IF i + chunk_size < Len(X) THEN "start" ELSE "join"
    /\ UNCHANGED <<fn, X, n_jobs, D, j, chunk_size, rowsLeft, colsLeft,
                   joined, hits, error>>

\* for t in threads: t.join() -- one iteration, which blocks until the
\* thread has finished.
join ==
    /\ pc = "join"
    /\ joined < Len(threads)
    /\ is_finished(threads[joined + 1])
    /\ joined' = joined + 1
    /\ UNCHANGED <<fn, X, n_jobs, pc, D, i, j, chunk_size, rowsLeft,
                   colsLeft, threads, hits, error>>

\* return D, after the join loop.
thr_return ==
    /\ pc = "join"
    /\ joined = Len(threads)
    /\ pc' = "return"
    /\ UNCHANGED <<fn, X, n_jobs, D, i, j, chunk_size, rowsLeft, colsLeft,
                   threads, joined, hits, error>>

(* -------------------------------------------------------------- workers *)
RECURSIVE WriteCells(_, _, _)
\* M after every cell of the set S received its distance; W is the matrix
\* of assignment counts and the result is the pair <<M, W>>.
WriteCells(M, W, S) ==
    IF S = {} THEN <<M, W>>
    ELSE LET c == CHOOSE e \in S : TRUE
             r == WriteCells(M, W, S \ {c})
         IN <<SetCell(r[1], c[1], c[2], eucl_dist(X[c[1] + 1], X[c[2] + 1])),
              Bump(r[2], c[1], c[2])>>

\* task: D[i][j] = eucl_dist(X[i], X[j])
task(k) ==
    LET t == threads[k] IN
    /\ t.target = "task"
    /\ t.st = "running"
    /\ D' = SetCell(D, t.i, t.j, eucl_dist(X[t.i + 1], X[t.j + 1]))
    /\ hits' = Bump(hits, t.i, t.j)
    /\ threads' = [threads EXCEPT ![k].st = "done"]
    /\ X' = DatasetAfter(X, t.i, t.j, eucl_dist(X[t.i + 1], X[t.j + 1]))
    /\ UNCHANGED <<fn, n_jobs, pc, i, j, chunk_size, rowsLeft, colsLeft,
                   joined, error>>

\* task_2: one iteration of for j in range(len(X)): D[i][j] = ...; the
\* worker finishes when the range is exhausted.
task_2(k) ==
    LET t == threads[k] IN
    /\ t.target = "task_2"
    /\ t.st = "running"
    /\ IF t.jj \in task_2_range(X)
       THEN /\ D' = SetCell(D, t.i, t.jj, eucl_dist(X[t.i + 1], X[t.jj + 1]))
            /\ hits' = Bump(hits, t.i, t.jj)
            /\ threads' = [threads EXCEPT
                   ![k].jj = t.jj + 1,
                   ![k].st = IF t.jj + 1 \in task_2_range(X)
                             THEN "running" ELSE "done"]
       ELSE /\ threads' = [threads EXCEPT ![k].st = "done"]
            /\ UNCHANGED <<D, hits>>
    /\ X' = IF t.jj \in task_2_range(X)
            THEN DatasetAfter(X, t.i, t.jj,
                              eucl_dist(X[t.i + 1], X[t.jj + 1]))
            ELSE X
    /\ UNCHANGED <<fn, n_jobs, pc, i, j, chunk_size, rowsLeft, colsLeft,
                   joined, error>>

\* task_3: D[i] = np.sqrt(np.sum((X[i] - X)**2, axis=-1)), one row at once.
task_3(k) ==
    LET t == threads[k]
        r == WriteCells(D, hits, Cells(t))
    IN
    /\ t.target = "task_3"
    /\ t.st = "running"
    /\ D' = r[1]
    /\ hits' = r[2]
    /\ threads' = [threads EXCEPT ![k].st = "done"]
    /\ X' = DatasetAfter(X, t.i, 0, eucl_dist(X[t.i + 1], X[0 + 1]))
    /\ UNCHANGED <<fn, n_jobs, pc, i, j, chunk_size, rowsLeft, colsLeft,
                   joined, error>>

\* task_4: D[i:i+chunk_size] = cdist(X[i:i+chunk_size], X), one slice
\* assignment.
task_4(k) ==
    LET t == threads[k]
        n == Len(X)
        rows == Slice(t.i, t.chunk_size, n)
        block == cdist([a \in 1 .. Cardinality(rows) |-> X[t.i + a]], X)
    IN
    /\ t.target = "task_4"
    /\ t.st = "running"
    /\ D' = [a \in 1 .. n |->
                IF (a - 1) \in rows THEN block[a - t.i] ELSE D[a]]
    /\ hits' = [a \in 1 .. n |->
                   IF (a - 1) \in rows
                   THEN [b \in 1 .. n |-> hits[a][b] + 1] ELSE hits[a]]
    /\ threads' = [threads EXCEPT ![k].st = "done"]
    /\ X' = DatasetAfter(X, t.i, 0, eucl_dist(X[t.i + 1], X[0 + 1]))
    /\ UNCHANGED <<fn, n_jobs, pc, i, j, chunk_size, rowsLeft, colsLeft,
                   joined, error>>

Next ==
    \/ eucl_dist_matrix_enter
    \/ eucl_dist_matrix_step
    \/ eucl_dist_matrix_return
    \/ eucl_dist_matrix_shuffled_enter
    \/ eucl_dist_matrix_shuffled_row
    \/ eucl_dist_matrix_shuffled_step
    \/ eucl_dist_matrix_shuffled_return
    \/ thr_enter
    \/ eucl_dist_matrix_thr_start
    \/ row_thr_start
    \/ eucl_dist_matrix_thr_4_enter
    \/ eucl_dist_matrix_thr_4_start
    \/ join
    \/ thr_return
    \/ \E k \in 1 .. Len(threads) : task(k)
    \/ \E k \in 1 .. Len(threads) : task_2(k)
    \/ \E k \in 1 .. Len(threads) : task_3(k)
    \/ \E k \in 1 .. Len(threads) : task_4(k)

Spec == Init /\ [][Next]_vars

(* ------------------------------------ threaded builders, fairly scheduled *)
\* A call of one of the threaded builders. No guard of a builder or of a
\* worker reads a coordinate, only len(X).
InitThreaded ==
    /\ Init
    /\ fn \in Threaded
    /\ Total(X, Len(X)) <= MaxFairSum

NextThreaded ==
    \/ thr_enter
    \/ eucl_dist_matrix_thr_start
    \/ row_thr_start
    \/ eucl_dist_matrix_thr_4_enter
    \/ eucl_dist_matrix_thr_4_start
    \/ join
    \/ thr_return
    \/ \E k \in 1 .. Len(threads) : task(k)
    \/ \E k \in 1 .. Len(threads) : task_2(k)
    \/ \E k \in 1 .. Len(threads) : task_3(k)
    \/ \E k \in 1 .. Len(threads) : task_4(k)

\* The scheduler lets a runnable thread run: the call does not stop while
\* the parent or a worker can take a step.
FairSpec == InitThreaded /\ [][NextThreaded]_vars /\ WF_vars(NextThreaded)

(* ------------------------------------------------ process-based builder *)
\* Process(target=task_p, args=(D, X, i, chunk_size)); t.start(): the child
\* process runs on its own copy M of the parent's matrix.
Process(target, a, c, M) ==
    [target |-> target, i |-> a, j |-> 0, chunk_size |-> c,
     st |-> "running", jj |-> 0, D |-> M]

\* A child whose writes land in the parent's matrix, as a thread's would.
ParentSharesChild(P, C) == C

\* The parent's matrix P after a child filled its copy C: the child's
\* memory is its own and nothing is sent back.
ParentAfterChild(P, C) == P

\* eucl_dist_matrix_p up to the loop header: chunk_size = n // 8, and
\* range(0, n, chunk_size), which raises ValueError on a zero step.
eucl_dist_matrix_p_enter ==
    /\ pc = "call"
    /\ fn = "eucl_dist_matrix_p"
    /\ D' = empty_square_matrix(Len(X))
    /\ hits' = empty_square_matrix(Len(X))
    /\ chunk_size' = Len(X) \div ProcChunks
    /\ threads' = <<>>
    /\ joined' = 0
    /\ i' = 0
    /\ IF chunk_size' = 0
       THEN /\ pc' = "raised"
            /\ error' = "ValueError"
       ELSE /\ pc' = "start"
            /\ error' = error
    /\ UNCHANGED <<fn, X, n_jobs, j, rowsLeft, colsLeft>>

\* One iteration of for i in range(0, n, chunk_size) starts the child
\* process of the chunk that begins at row i.
eucl_dist_matrix_p_start ==
    /\ pc = "start"
    /\ fn = "eucl_dist_matrix_p"
    /\ threads' = Append(threads, Process("task_p", i, chunk_size, D))
    /\ i' = i + chunk_size
    /\ pc' = IF i + chunk_size < Len(X) THEN "start" ELSE "join"
    /\ UNCHANGED <<fn, X, n_jobs, D, j, chunk_size, rowsLeft, colsLeft,
                   joined, hits, error>>

\* task_p: the child fills the rows range(k, min(k + chunk_size, len(X)))
\* of its copy of D. The run is one step: no other process can see the
\* child's memory.
task_p(k) ==
    LET t == threads[k]
        n == Len(X)
        rows == Slice(t.i, t.chunk_size, n)
        filled == [a \in 1 .. n |->
                      IF (a - 1) \in rows
                      THEN [b \in 1 .. n |-> eucl_dist(X[a], X[b])]
                      ELSE t.D[a]]
    IN
    /\ t.target = "task_p"
    /\ t.st = "running"
    /\ threads' = [threads EXCEPT ![k].st = "done", ![k].D = filled]
    /\ D' = ParentAfterChild(D, filled)
    /\ UNCHANGED <<fn, X, n_jobs, pc, i, j, chunk_size, rowsLeft, colsLeft,
                   joined, hits, error>>

\* The non-empty datasets of at most MaxProcN rows, each row one natural
\* coordinate, the coordinates summing to at most MaxProcSum.
ProcDatasets ==
    {Y \in UNION {[1 .. n -> {<<v>> : v \in 0 .. MaxProcSum}] :
                     n \in 1 .. MaxProcN} :
        Total(Y, Len(Y)) <= MaxProcSum}

\* A call of eucl_dist_matrix_p.
InitProc ==
    /\ fn = "eucl_dist_matrix_p"
    /\ X \in ProcDatasets
    /\ n_jobs = 0
    /\ pc = "call"
    /\ D = <<>>
    /\ hits = <<>>
    /\ i = 0
    /\ j = 0
    /\ chunk_size = 0
    /\ rowsLeft = <<>>
    /\ colsLeft = <<>>
    /\ threads = <<>>
    /\ joined = 0
    /\ error = "none"

NextProc ==
    \/ eucl_dist_matrix_p_enter
    \/ eucl_dist_matrix_p_start
    \/ join
    \/ thr_return
    \/ \E k \in 1 .. Len(threads) : task_p(k)

SpecProc == InitProc /\ [][NextProc]_vars

(* ------------------------------- sequential builder on points of a plane *)
RECURSIVE PairTotal(_, _)
\* The sum of the coordinates of the first k rows of Y, two per row.
PairTotal(Y, k) ==
    IF k = 0 THEN 0 ELSE PairTotal(Y, k - 1) + Y[k][1] + Y[k][2]

\* The non-empty datasets of at most MaxPairN rows of two natural
\* coordinates each, the coordinates summing to at most MaxPairSum.
PairDatasets ==
    {Y \in UNION {[1 .. n -> (0 .. MaxPairSum) \X (0 .. MaxPairSum)] :
                     n \in 1 .. MaxPairN} :
        PairTotal(Y, Len(Y)) <= MaxPairSum}

\* A call of eucl_dist_matrix on a dataset of two-coordinate rows.
InitPairs ==
    /\ fn = "eucl_dist_matrix"
    /\ X \in PairDatasets
    /\ n_jobs = 0
    /\ pc = "call"
    /\ D = <<>>
    /\ hits = <<>>
    /\ i = 0
    /\ j = 0
    /\ chunk_size = 0
    /\ rowsLeft = <<>>
    /\ colsLeft = <<>>
    /\ threads = <<>>
    /\ joined = 0
    /\ error = "none"

NextPairs ==
    \/ eucl_dist_matrix_enter
    \/ eucl_dist_matrix_step
    \/ eucl_dist_matrix_return

SpecPairs == InitPairs /\ [][NextPairs]_vars

(* --------------------------------------------------------------- claims *)
Returned == pc = "return"

AllFinished == \A k \in 1 .. Len(threads) : threads[k].st = "done"

\* C1: for every dataset and every partition count n_jobs >= 1, the
\* partitioned builder eucl_dist_matrix_thr_4 returns, and the matrix it
\* returns equals the matrix of the sequential builder cell by cell.
C1_PartitionedEqualsSequential ==
    fn = "eucl_dist_matrix_thr_4" =>
        /\ pc # "raised"
        /\ Returned => D = eucl_dist_matrix(X)

\* C2: called with partition count 1 or with partition count n, the
\* partitioned builder raises nothing and returns exactly the matrix of the
\* sequential builder.
C2_OneAndNReduceToSequential ==
    (fn = "eucl_dist_matrix_thr_4" /\ n_jobs \in {1, Len(X)}) =>
        /\ pc # "raised"
        /\ Returned => D = eucl_dist_matrix(X)

C2_Witness ==
    /\ fn = "eucl_dist_matrix_thr_4"
    /\ n_jobs = Len(X)
    /\ Len(X) > 1
    /\ Returned
    /\ \E a, b \in 1 .. Len(X) : D[a][b] # 0

\* C3: in the partitioned builder no cell of the shared matrix is written,
\* or still to be written, by two distinct workers.
C3_DisjointRowRanges ==
    fn = "eucl_dist_matrix_thr_4" =>
        \A k1, k2 \in 1 .. Len(threads) :
            k1 # k2 => Cells(threads[k1]) \cap Cells(threads[k2]) = {}

C3_Witness ==
    /\ fn = "eucl_dist_matrix_thr_4"
    /\ \E k1, k2 \in 1 .. Len(threads) :
           /\ k1 # k2
           /\ Pending(threads[k1]) # {}
           /\ Pending(threads[k2]) # {}
           /\ Cardinality(Cells(threads[k1])) # Cardinality(Cells(threads[k2]))

\* C4: a threaded builder returns only after every worker it started has
\* finished, and the returned matrix is never written again.
C4_JoinBarrier ==
    /\ [](Returned /\ fn \in Threaded => AllFinished)
    /\ [][Returned => D' = D]_vars

C4_Witness ==
    /\ fn \in Threaded
    /\ Returned
    /\ Len(threads) > 1
    /\ AllFinished

\* C5: the matrix eucl_dist_matrix returns is symmetric.
C5_Symmetric ==
    (fn = "eucl_dist_matrix" /\ Returned) =>
        \A a, b \in 1 .. Len(X) : D[a][b] = D[b][a]

C5_Witness ==
    /\ fn = "eucl_dist_matrix"
    /\ Returned
    /\ \E a, b \in 1 .. Len(X) : a # b /\ D[a][b] # 0

\* C6: the matrix eucl_dist_matrix returns has a zero diagonal.
C6_ZeroDiagonal ==
    (fn = "eucl_dist_matrix" /\ Returned) =>
        \A a \in 1 .. Len(X) : D[a][a] = 0

C6_Witness ==
    /\ fn = "eucl_dist_matrix"
    /\ Returned
    /\ \E a \in 1 .. Len(X) : X[a][1] # 0 /\ hits[a][a] > 0

\* C7: the partitioned builder starts exactly n_jobs workers, one per chunk.
C7_WorkerCountIsNJobs ==
    (fn = "eucl_dist_matrix_thr_4" /\ pc \in {"join", "return"}) =>
        Len(threads) = n_jobs

\* C8: on a non-empty dataset of equal-length rows and with n_jobs >= 1,
\* no builder raises an error.
C8_NoError ==
    fn \in {"eucl_dist_matrix", "eucl_dist_matrix_thr",
            "eucl_dist_matrix_thr_2", "eucl_dist_matrix_thr_4"} =>
        (pc # "raised" /\ error = "none")

\* C9: whatever row order and column orders the shuffled builder draws, the
\* matrix it returns equals the matrix of the sequential builder.
C9_ShuffledEqualsSequential ==
    (fn = "eucl_dist_matrix_shuffled" /\ Returned) =>
        D = eucl_dist_matrix(X)

C9_Witness ==
    /\ fn = "eucl_dist_matrix_shuffled"
    /\ Returned
    /\ Len(X) = MaxN
    /\ \E a, b \in 1 .. Len(X) : D[a][b] # 0

\* C10: the one-thread-per-cell builder and the one-thread-per-row builder
\* each return the matrix of the sequential builder, under every
\* interleaving of their workers.
C10_CellAndRowThreadsEqualSequential ==
    (fn \in {"eucl_dist_matrix_thr", "eucl_dist_matrix_thr_2"} /\ Returned) =>
        D = eucl_dist_matrix(X)

C10_Witness ==
    /\ fn = "eucl_dist_matrix_thr_2"
    /\ Returned
    /\ Len(X) = MaxN
    /\ \E a, b \in 1 .. Len(X) : D[a][b] # 0

\* C11: the dataset is an immutable input: no step of any builder or of
\* any worker changes the caller's dataset X.
C11_DatasetImmutable == [][X' = X]_vars

C11_Witness ==
    /\ fn \in Threaded
    /\ pc = "start"
    /\ \E k \in 1 .. Len(threads) : threads[k].st = "done"
    /\ \E k \in 1 .. Len(threads) : threads[k].st = "running"
    /\ \E a \in 1 .. Len(X) : X[a][1] # 0

\* C12: for the rows [[0,0],[3,4]] eucl_dist_matrix returns exactly
\* [[0,5],[5,0]].
C12_Example ==
    (fn = "eucl_dist_matrix" /\ X = <<(<<0, 0>>), (<<3, 4>>)>> /\ Returned) =>
        D = <<(<<0, 5>>), (<<5, 0>>)>>

C12_Witness ==
    /\ fn = "eucl_dist_matrix"
    /\ X = <<(<<0, 0>>), (<<3, 4>>)>>
    /\ Returned
    /\ D[1][2] = 5

RECURSIVE RowHits(_, _, _)
\* The number of assignments to the first k cells of row a of the matrix.
RowHits(W, a, k) == IF k = 0 THEN 0 ELSE RowHits(W, a, k - 1) + W[a][k]

RECURSIVE TotalHits(_, _)
\* The number of assignments to the first k rows of the matrix.
TotalHits(W, k) ==
    IF k = 0 THEN 0 ELSE TotalHits(W, k - 1) + RowHits(W, k, Len(W[k]))

\* C13: the sequential builder assigns each cell (i, j) exactly once: no
\* cell is ever assigned twice, and when it returns it has made n * n
\* assignments, one to every cell.
C13_EachPairOnce ==
    (fn = "eucl_dist_matrix" /\ pc \in {"fill", "return"}) =>
        /\ \A a, b \in 1 .. Len(X) : hits[a][b] <= 1
        /\ Returned =>
               /\ \A a, b \in 1 .. Len(X) : hits[a][b] = 1
               /\ TotalHits(hits, Len(X)) = Len(X) * Len(X)

C13_Witness ==
    /\ fn = "eucl_dist_matrix"
    /\ Returned
    /\ Len(X) = MaxN
    /\ TotalHits(hits, Len(X)) = MaxN * MaxN

\* C14: in the process-based builder every child writes to its own copy of
\* D only: whatever the children computed, the parent's matrix stays all
\* zero, and that is the matrix returned after the joins.
C14_ParentMatrixStaysZero ==
    (fn = "eucl_dist_matrix_p" /\ pc \in {"start", "join", "return"}) =>
        D = empty_square_matrix(Len(X))

C14_Witness ==
    /\ fn = "eucl_dist_matrix_p"
    /\ Len(X) >= ProcChunks
    /\ Returned
    /\ AllFinished
    /\ \E k \in 1 .. Len(threads) :
           \E a, b \in 1 .. Len(X) : threads[k].D[a][b] # 0

\* The calls C15 and C16 are about: a threaded builder, the partitioned one
\* with a partition count of at most n.
WithinRows == fn = "eucl_dist_matrix_thr_4" => n_jobs <= Len(X)

\* The states of the calls of C15 in which the matrix exists.
WriteOnceScope ==
    /\ fn \in {"eucl_dist_matrix_thr", "eucl_dist_matrix_thr_2",
               "eucl_dist_matrix_thr_4"}
    /\ WithinRows
    /\ pc # "call"

\* C15: in eucl_dist_matrix_thr, _thr_2 and _thr_4 (n_jobs <= n) each cell
\* is written exactly once over the run: no cell is written twice, a cell
\* holds 0 until its write and its distance from then on, every cell has
\* been written at the return, and a written cell never changes again.
C15_EachCellWrittenOnce ==
    /\ [](WriteOnceScope =>
            \A a, b \in 1 .. Len(X) :
                /\ hits[a][b] <= 1
                /\ hits[a][b] = 0 => D[a][b] = 0
                /\ hits[a][b] = 1 => D[a][b] = eucl_dist(X[a], X[b])
                /\ Returned => hits[a][b] = 1)
    /\ [][WriteOnceScope =>
            \A a, b \in 1 .. Len(X) :
                hits[a][b] >= 1 => D'[a][b] = D[a][b]]_vars

C15_Witness ==
    /\ fn = "eucl_dist_matrix_thr_4"
    /\ WithinRows
    /\ pc = "join"
    /\ \E a, b \in 1 .. Len(X) : hits[a][b] = 1 /\ D[a][b] # 0
    /\ \E a, b \in 1 .. Len(X) : hits[a][b] = 0

\* C16: under fair scheduling every call of a threaded builder with
\* 1 <= n_jobs <= n eventually reaches its return.
C16_EventuallyReturns ==
    (fn \in Threaded /\ WithinRows) ~> Returned

C16_Witness ==
    /\ fn \in Threaded
    /\ WithinRows
    /\ Returned
    /\ joined = Len(threads)
    /\ joined >= MaxN

====
